---- MODULE Spec2Model ----
(***************************************************************************)
(* Model of the langextract document pipeline: the document chunker        *)
(* (document_processor/chunker.py), the schema extractor                   *)
(* (core/schema_extractor.py) and the chunk storage / metadata aggregation *)
(* steps of the document processor (document_processor/processor.py).      *)
(*                                                                         *)
(* Text is a sequence of one-character strings.  chunk_index is kept in    *)
(* tenths of a unit, because _split_large_chunk gives sub-chunks the       *)
(* fractional index base_index + sub_index * 0.1: the integer index i is   *)
(* stored as 10 * i.  Confidences are kept in hundredths (0.7 is 70).      *)
(***************************************************************************)
EXTENDS Integers, Sequences, FiniteSets, TLC

VARIABLES
    call,             \* the operation this behaviour invokes
    pc,               \* position of the call under way: "start" or "done"
    config,           \* ChunkConfig of the chunker
    content,          \* extracted document content handed to chunk_content
    input_chunks,     \* chunk list handed directly to _optimize_chunk_sizes
    chunks,           \* chunk list returned by the chunker
    raised,           \* TRUE when the call raised an exception
    chunk_text,       \* text handed to SchemaExtractor.extract_from_chunk
    schema_names,     \* schema names handed to extract_from_chunk
    options,          \* options handed to extract_from_chunk
    extracted,        \* extracted_data returned by extract_from_chunk
    extractions,      \* extracted_data of successive invocations on the same input
    processed_chunks, \* processed chunks handed to the DocumentProcessor steps
    supabase_available, \* supabase_client.is_available()
    insert_ok,        \* the storage insert returns data
    chunk_records,    \* the batch handed to the storage insert
    aggregated,       \* results of the successive _aggregate_document_metadata calls
    doc_chunks,       \* per chunk of the document: what its text analysis and the
                      \* embedding gateway give
    processing_status, \* the status process_document hands to _update_document_status
    record_ok,        \* the insert of the document record returns data
    update_ok,        \* the update of the document record reaches the table
    documents,        \* table langextract_documents: the records by document id
    processed_embeddings, \* table langextract_processed_embeddings: its rows
    schemas,          \* SchemaLoader.schemas: the loaded definitions by name
    vocabularies,     \* SchemaLoader.vocabularies: the loaded vocabularies by name
    loader_name,      \* the name handed to the SchemaLoader method
    loader_result     \* what the SchemaLoader method returned

chunker_vars == <<config, content, input_chunks, chunks, raised>>

extractor_vars == <<chunk_text, schema_names, options, extracted, extractions>>

processor_vars ==
    <<processed_chunks, supabase_available, insert_ok, chunk_records, aggregated,
      doc_chunks, processing_status, record_ok, update_ok, documents,
      processed_embeddings>>

loader_vars == <<schemas, vocabularies, loader_name, loader_result>>

vars == <<call, pc, chunker_vars, extractor_vars, processor_vars, loader_vars>>

(***************************************************************************)
(* Bounds of the model                                                     *)
(***************************************************************************)
MaxTextLen == 5
MaxSizeBound == 4
MaxInputChunks == 3
MaxOverlap == 2
MaxTables == 2
MaxImages == 1
MaxExtractLen == 4
MaxProcessedChunks == 3

(***************************************************************************)
(* Characters and the string helpers of Python the chunker relies on       *)
(***************************************************************************)
NUL == "^@"
CR == "\r"
NoText == <<"<None>">>

Char == {"a", ".", " ", "\n", NUL}

\* \s of the re module, and the characters str.strip() removes
IsSpace(c) == c \in {" ", "\n", CR, "\t"}

\* [\x00-\x08\x0b\x0c\x0e-\x1f\x7f-\x9f]
IsControl(c) == c = NUL

\* [.!?]
IsSentenceEnd(c) == c \in {".", "!", "?"}

RECURSIVE SeqsUpTo(_, _)
SeqsUpTo(S, n) ==
    IF n = 0 THEN {<<>>}
    ELSE LET shorter == SeqsUpTo(S, n - 1)
         IN  shorter \cup {Append(s, c) : s \in {t \in shorter : Len(t) = n - 1}, c \in S}

RECURSIVE LStrip(_)
LStrip(s) ==
    IF s = <<>> THEN s
    ELSE IF IsSpace(Head(s)) THEN LStrip(Tail(s)) ELSE s

RECURSIVE RStrip(_)
RStrip(s) ==
    IF s = <<>> THEN s
    ELSE IF IsSpace(s[Len(s)]) THEN RStrip(SubSeq(s, 1, Len(s) - 1)) ELSE s

Strip(s) == RStrip(LStrip(s))

\* str.rfind(c): 0-based position of the last occurrence, -1 when there is none
RFind(s, c) ==
    LET hits == {i \in 1..Len(s) : s[i] = c}
    IN  IF hits = {} THEN -1
        ELSE (CHOOSE i \in hits : \A j \in hits : j <= i) - 1

\* s[-n:] for n > 0
LastChars(s, n) == IF Len(s) <= n THEN s ELSE SubSeq(s, Len(s) - n + 1, Len(s))

\* s[k:] for a 0-based k >= 0
FromIndex(s, k) == SubSeq(s, k + 1, Len(s))

Min(S) == CHOOSE x \in S : \A y \in S : x <= y

\* c * n
Rep(c, n) == [i \in 1..n |-> c]

(***************************************************************************)
(* DocumentChunker: text normalisation and paragraph splitting             *)
(***************************************************************************)
\* re.sub(r'\s+', ' ', text)
RECURSIVE CollapseWhitespace(_)
CollapseWhitespace(s) ==
    IF s = <<>> THEN s
    ELSE IF IsSpace(Head(s))
         THEN <<" ">> \o CollapseWhitespace(LStrip(s))
         ELSE <<Head(s)>> \o CollapseWhitespace(Tail(s))

\* re.sub(r'[\x00-\x08\x0b\x0c\x0e-\x1f\x7f-\x9f]', '', text)
RemoveControl(s) == SelectSeq(s, LAMBDA c : ~IsControl(c))

\* re.sub(r'\r\n|\r', '\n', text)
RECURSIVE NormalizeLineBreaks(_)
NormalizeLineBreaks(s) ==
    IF s = <<>> THEN s
    ELSE IF Head(s) = CR
         THEN IF Len(s) >= 2 /\ s[2] = "\n"
              THEN <<"\n">> \o NormalizeLineBreaks(Tail(Tail(s)))
              ELSE <<"\n">> \o NormalizeLineBreaks(Tail(s))
         ELSE <<Head(s)>> \o NormalizeLineBreaks(Tail(s))

CleanText(text) == Strip(NormalizeLineBreaks(RemoveControl(CollapseWhitespace(text))))

\* the position where a match of \n\s*\n that starts at i ends, 0 when none starts there
ParagraphBreakEnd(s, i) ==
    IF s[i] # "\n" THEN 0
    ELSE LET ends == {j \in (i + 1)..Len(s) :
                         s[j] = "\n" /\ \A k \in i..j : IsSpace(s[k])}
         IN  IF ends = {} THEN 0 ELSE CHOOSE j \in ends : \A k \in ends : k <= j

\* re.split(r'\n\s*\n', text)
RECURSIVE ReSplitParagraphs(_)
ReSplitParagraphs(s) ==
    LET starts == {i \in 1..Len(s) : ParagraphBreakEnd(s, i) > 0}
    IN  IF starts = {} THEN <<s>>
        ELSE LET i == CHOOSE x \in starts : \A y \in starts : x <= y
             IN  <<SubSeq(s, 1, i - 1)>>
                     \o ReSplitParagraphs(SubSeq(s, ParagraphBreakEnd(s, i) + 1, Len(s)))

RECURSIVE StripAndDropEmpty(_)
StripAndDropEmpty(ps) ==
    IF ps = <<>> THEN <<>>
    ELSE IF Strip(Head(ps)) # <<>>
         THEN <<Strip(Head(ps))>> \o StripAndDropEmpty(Tail(ps))
         ELSE StripAndDropEmpty(Tail(ps))

SplitIntoParagraphs(text) == StripAndDropEmpty(ReSplitParagraphs(text))

GetOverlapText(text, cfg) ==
    IF Len(text) <= cfg.overlap_size THEN text
    ELSE LET tail == LastChars(text, cfg.overlap_size)
             sentence_end == RFind(tail, ".")
             after_sentence == IF sentence_end > cfg.overlap_size \div 2
                               THEN FromIndex(tail, sentence_end + 1)
                               ELSE tail
             word_end == RFind(after_sentence, " ")
             after_word == IF word_end > 0
                           THEN FromIndex(after_sentence, word_end + 1)
                           ELSE after_sentence
         IN  after_word \o <<" ">>

(***************************************************************************)
(* DocumentChunker: chunk records                                          *)
(***************************************************************************)
ExtractChunkMetadata(text, chunk_index) ==
    [chunk_type |-> "text", length |-> Len(text), chunk_index |-> 10 * chunk_index]

CreateTextChunk(text, content_type, chunk_index) ==
    [chunk_id |-> <<"chunk", chunk_index>>,
     chunk_index |-> 10 * chunk_index,
     content |-> text,
     content_type |-> content_type,
     metadata |-> ExtractChunkMetadata(text, chunk_index)]

\* the paragraph loop written without its final flush
RECURSIVE AccumulateParagraphs_NoFinalFlush(_, _, _, _, _)
AccumulateParagraphs_NoFinalFlush(paragraphs, acc, current_chunk, chunk_index, cfg) ==
    IF paragraphs = <<>> THEN acc
    ELSE LET paragraph == Head(paragraphs)
         IN  IF Len(current_chunk) + Len(paragraph) > cfg.max_chunk_size
                    /\ Strip(current_chunk) # <<>>
             THEN AccumulateParagraphs_NoFinalFlush(Tail(paragraphs),
                      Append(acc, CreateTextChunk(Strip(current_chunk), "text", chunk_index)),
                      GetOverlapText(current_chunk, cfg) \o paragraph,
                      chunk_index + 1, cfg)
             ELSE AccumulateParagraphs_NoFinalFlush(Tail(paragraphs), acc,
                      current_chunk \o paragraph \o <<"\n", "\n">>,
                      chunk_index, cfg)

\* the paragraph loop whose final flush does not test for remaining content
RECURSIVE AccumulateParagraphs_UnguardedFlush(_, _, _, _, _)
AccumulateParagraphs_UnguardedFlush(paragraphs, acc, current_chunk, chunk_index, cfg) ==
    IF paragraphs = <<>>
    THEN Append(acc, CreateTextChunk(Strip(current_chunk), "text", chunk_index))
    ELSE LET paragraph == Head(paragraphs)
         IN  IF Len(current_chunk) + Len(paragraph) > cfg.max_chunk_size
                    /\ Strip(current_chunk) # <<>>
             THEN AccumulateParagraphs_UnguardedFlush(Tail(paragraphs),
                      Append(acc, CreateTextChunk(Strip(current_chunk), "text", chunk_index)),
                      GetOverlapText(current_chunk, cfg) \o paragraph,
                      chunk_index + 1, cfg)
             ELSE AccumulateParagraphs_UnguardedFlush(Tail(paragraphs), acc,
                      current_chunk \o paragraph \o <<"\n", "\n">>,
                      chunk_index, cfg)

\* the paragraph loop of _chunk_text with its final flush
RECURSIVE AccumulateParagraphs(_, _, _, _, _)
AccumulateParagraphs(paragraphs, acc, current_chunk, chunk_index, cfg) ==
    IF paragraphs = <<>>
    THEN IF Strip(current_chunk) # <<>>
         THEN Append(acc, CreateTextChunk(Strip(current_chunk), "text", chunk_index))
         ELSE acc
    ELSE LET paragraph == Head(paragraphs)
         IN  IF Len(current_chunk) + Len(paragraph) > cfg.max_chunk_size
                    /\ Strip(current_chunk) # <<>>
             THEN AccumulateParagraphs(Tail(paragraphs),
                      Append(acc, CreateTextChunk(Strip(current_chunk), "text", chunk_index)),
                      GetOverlapText(current_chunk, cfg) \o paragraph,
                      chunk_index + 1, cfg)
             ELSE AccumulateParagraphs(Tail(paragraphs), acc,
                      current_chunk \o paragraph \o <<"\n", "\n">>,
                      chunk_index, cfg)

(***************************************************************************)
(* DocumentChunker: size optimisation                                      *)
(***************************************************************************)
\* re.split(r'(?<=[.!?])\s+', content)
RECURSIVE SplitSentences(_)
SplitSentences(s) ==
    LET starts == {i \in 2..Len(s) : IsSpace(s[i]) /\ IsSentenceEnd(s[i - 1])}
    IN  IF starts = {} THEN <<s>>
        ELSE LET i == CHOOSE x \in starts : \A y \in starts : x <= y
             IN  <<SubSeq(s, 1, i - 1)>> \o SplitSentences(LStrip(SubSeq(s, i, Len(s))))

\* a sub-chunk that takes the chunk_id of its parent without a suffix
SubChunk_ParentId(chunk, current_chunk, sub_index) ==
    [chunk_id |-> chunk.chunk_id,
     chunk_index |-> chunk.chunk_index + sub_index,
     content |-> Strip(current_chunk),
     content_type |-> chunk.content_type,
     metadata |-> ("parent_chunk" :> chunk.chunk_id)
                      @@ ("sub_chunk_index" :> sub_index)
                      @@ chunk.metadata]

SubChunk(chunk, current_chunk, sub_index) ==
    [chunk_id |-> chunk.chunk_id \o <<"sub", sub_index>>,
     chunk_index |-> chunk.chunk_index + sub_index,
     content |-> Strip(current_chunk),
     content_type |-> chunk.content_type,
     metadata |-> ("parent_chunk" :> chunk.chunk_id)
                      @@ ("sub_chunk_index" :> sub_index)
                      @@ chunk.metadata]

RECURSIVE SplitLoop(_, _, _, _, _, _)
SplitLoop(sentences, sub_chunks, current_chunk, sub_index, chunk, cfg) ==
    IF sentences = <<>>
    THEN IF Strip(current_chunk) # <<>>
         THEN Append(sub_chunks, SubChunk(chunk, current_chunk, sub_index))
         ELSE sub_chunks
    ELSE LET sentence == Head(sentences)
         IN  IF Len(current_chunk) + Len(sentence) > cfg.max_chunk_size
                    /\ current_chunk # <<>>
             THEN SplitLoop(Tail(sentences),
                      Append(sub_chunks, SubChunk(chunk, current_chunk, sub_index)),
                      sentence, sub_index + 1, chunk, cfg)
             ELSE SplitLoop(Tail(sentences), sub_chunks,
                      IF current_chunk # <<>>
                      THEN current_chunk \o <<" ">> \o sentence
                      ELSE sentence,
                      sub_index, chunk, cfg)

SplitLargeChunk(chunk, cfg) ==
    SplitLoop(SplitSentences(chunk.content), <<>>, <<>>, 0, chunk, cfg)

\* metadata.get('merged_chunks', 0)
MergedCount(metadata) ==
    IF "merged_chunks" \in DOMAIN metadata THEN metadata.merged_chunks ELSE 0

\* a merge that joins the two contents without the separator
MergeInto_NoSeparator(last_chunk, chunk_content) ==
    [last_chunk EXCEPT
        !.content = @ \o chunk_content,
        !.metadata = ("merged_chunks" :> (MergedCount(@) + 1)) @@ @]

MergeInto(last_chunk, chunk_content) ==
    [last_chunk EXCEPT
        !.content = @ \o <<"\n", "\n">> \o chunk_content,
        !.metadata = ("merged_chunks" :> (MergedCount(@) + 1)) @@ @]

RECURSIVE OptimizeLoop(_, _, _)
OptimizeLoop(cs, optimized_chunks, cfg) ==
    IF cs = <<>> THEN optimized_chunks
    ELSE LET chunk == Head(cs)
             n == Len(optimized_chunks)
         IN  IF Len(chunk.content) > cfg.max_chunk_size
             THEN \* no 'continue' after the split: the oversized chunk is appended too
                  OptimizeLoop(Tail(cs),
                      Append(optimized_chunks \o SplitLargeChunk(chunk, cfg), chunk), cfg)
             ELSE IF Len(chunk.content) < cfg.min_chunk_size /\ n > 0
                        /\ Len(optimized_chunks[n].content) + Len(chunk.content)
                               <= cfg.max_chunk_size
                  THEN OptimizeLoop(Tail(cs),
                           [optimized_chunks EXCEPT ![n] = MergeInto(@, chunk.content)], cfg)
                  ELSE OptimizeLoop(Tail(cs), Append(optimized_chunks, chunk), cfg)

\* the pass written without its re-indexing loop
ReIndex_Skipped(cs) == cs

\* the re-indexing loop that ends _optimize_chunk_sizes
ReIndex(cs) == [i \in 1..Len(cs) |-> [cs[i] EXCEPT !.chunk_index = 10 * (i - 1)]]

OptimizeChunkSizes(cs, cfg) == ReIndex(OptimizeLoop(cs, <<>>, cfg))

ChunkText(text, cfg) ==
    IF text = <<>> \/ Strip(text) = <<>> THEN <<>>
    ELSE OptimizeChunkSizes(
             AccumulateParagraphs(SplitIntoParagraphs(CleanText(text)), <<>>, <<>>, 0, cfg),
             cfg)

(***************************************************************************)
(* DocumentProcessor: storing processed chunks                             *)
(***************************************************************************)
EmbeddingDimension == 1536

EmptyMap == [k \in {} |-> <<>>]

\* chunk['embeddings'].get('text', [])
TextEmbedding(chunk) ==
    IF "text" \in DOMAIN chunk.embeddings THEN chunk.embeddings.text ELSE <<>>

\* the embedding test written without the dimension check
ValidEmbedding_NoDimensionCheck(text_embedding) ==
    ~(text_embedding = <<>> \/ Len(text_embedding) = 0)

\* not (not e or len(e) == 0 or len(e) != 1536)
ValidEmbedding(text_embedding) ==
    ~(text_embedding = <<>> \/ Len(text_embedding) = 0
          \/ Len(text_embedding) # EmbeddingDimension)

StorageRecord(chunk) ==
    [chunk_id |-> chunk.chunk_id,
     chunk_index |-> chunk.chunk_index,
     content |-> chunk.content,
     embedding |-> TextEmbedding(chunk),
     all_embeddings |-> chunk.embeddings,
     extracted_metadata |-> chunk.extracted_metadata]

\* the chunk_records list _store_processed_chunks builds
RECURSIVE BuildChunkRecords(_)
BuildChunkRecords(cs) ==
    IF cs = <<>> THEN <<>>
    ELSE IF ValidEmbedding(TextEmbedding(Head(cs)))
         THEN <<StorageRecord(Head(cs))>> \o BuildChunkRecords(Tail(cs))
         ELSE BuildChunkRecords(Tail(cs))

(***************************************************************************)
(* DocumentProcessor: aggregating document metadata                        *)
(***************************************************************************)
KeyEntitiesCap == 20
SectionsCap == 10
ActionItemsCap == 10

\* s[:n]
Take(s, n) == IF Len(s) <= n THEN s ELSE SubSeq(s, 1, n)

LowerChar(c) == IF c = "A" THEN "a" ELSE c

\* entity.get('text', '').lower().strip()
EntityKey(entity) == Strip([i \in 1..Len(entity.text) |-> LowerChar(entity.text[i])])

RECURSIVE DedupLoop(_, _, _)
DedupLoop(entities, seen_entities, deduplicated) ==
    IF entities = <<>> THEN deduplicated
    ELSE LET entity_text == EntityKey(Head(entities))
         IN  IF entity_text # <<>> /\ entity_text \notin seen_entities
             THEN DedupLoop(Tail(entities), seen_entities \cup {entity_text},
                            Append(deduplicated, Head(entities)))
             ELSE DedupLoop(Tail(entities), seen_entities, deduplicated)

\* the deduplication written so that every entity is kept
DeduplicateEntities_KeepsRepeats(entities) == entities

DeduplicateEntities(entities) == DedupLoop(entities, {}, <<>>)

\* extracted_metadata and not extracted_metadata.get('error')
ExtractionSucceeded(chunk) == chunk.extracted_metadata.kind = "enhanced"

LikelyTypes(chunk) ==
    IF chunk.extracted_metadata.kind = "enhanced"
    THEN chunk.extracted_metadata.likely_types
    ELSE <<>>

\* list.extend over a sequence of lists
RECURSIVE Concat(_)
Concat(ls) == IF ls = <<>> THEN <<>> ELSE Head(ls) \o Concat(Tail(ls))

\* all_entities: the important_entities of the chunks whose extraction succeeded
AllEntities(cs) ==
    Concat([i \in 1..Len(cs) |->
               IF ExtractionSucceeded(cs[i])
               THEN cs[i].extracted_metadata.important_entities ELSE <<>>])

\* all_sections: the document_sections of the chunks whose extraction succeeded
AllSections(cs) ==
    Concat([i \in 1..Len(cs) |->
               IF ExtractionSucceeded(cs[i])
               THEN cs[i].extracted_metadata.document_sections ELSE <<>>])

\* all_action_items: the action_items of the chunks whose extraction succeeded
AllActionItems(cs) ==
    Concat([i \in 1..Len(cs) |->
               IF ExtractionSucceeded(cs[i])
               THEN cs[i].extracted_metadata.action_items ELSE <<>>])

RECURSIVE SumLengths(_)
SumLengths(cs) == IF cs = <<>> THEN 0 ELSE Len(Head(cs).content) + SumLengths(Tail(cs))

SeqToSet(s) == {s[i] : i \in 1..Len(s)}

\* the set the loop adds every likely type of a successful chunk to
SchemasAppliedSet(cs) ==
    UNION {SeqToSet(LikelyTypes(cs[i])) : i \in {k \in 1..Len(cs) : ExtractionSucceeded(cs[k])}}

\* the likely types of all chunks, in the order the counting loop meets them
AllLikelyTypes(cs) == Concat([i \in 1..Len(cs) |-> LikelyTypes(cs[i])])

\* type_counts: occurrences of each type over all chunks
TypeCounts(cs) ==
    [t \in SeqToSet(AllLikelyTypes(cs)) |->
        Cardinality({i \in 1..Len(AllLikelyTypes(cs)) : AllLikelyTypes(cs)[i] = t})]

\* the choice written so that the first type met wins
PrimaryType_FirstSeen(cs) == AllLikelyTypes(cs)[1]

\* max(type_counts.items(), key=count)[0]: the first key, in insertion order,
\* whose count is maximal
PrimaryType(cs) ==
    LET all == AllLikelyTypes(cs)
        counts == TypeCounts(cs)
        best == {i \in 1..Len(all) : \A t \in DOMAIN counts : counts[t] <= counts[all[i]]}
    IN  all[Min(best)]

\* the orders list(a_set) can give: a set of strings has no specified order
ListOrders(S) ==
    {l \in [1..Cardinality(S) -> S] : \A i, j \in 1..Cardinality(S) : i # j => l[i] # l[j]}

\* _aggregate_document_metadata, with schemas_applied listed in the given order
AggregateDocumentMetadata(cs, schemas_applied) ==
    LET successful == Cardinality({i \in 1..Len(cs) : ExtractionSucceeded(cs[i])})
    IN  [total_chunks |-> Len(cs),
         document_type_indicators |->
             IF schemas_applied # <<>> /\ AllLikelyTypes(cs) # <<>>
             THEN [primary_type |-> PrimaryType(cs), confidence_scores |-> TypeCounts(cs)]
             ELSE EmptyMap,
         key_entities |->
             Take(DeduplicateEntities(AllEntities(cs)), KeyEntitiesCap),
         content_insights |->
             [total_text_length |-> SumLengths(cs),
              average_chunk_length |->
                  IF cs # <<>> THEN <<SumLengths(cs), Len(cs)>> ELSE <<0, 1>>,
              document_sections |->
                  Take(AllSections(cs), SectionsCap),
              action_items |->
                  Take(AllActionItems(cs), ActionItemsCap)],
         extraction_summary |->
             [successful_extractions |-> successful,
              failed_extractions |-> Len(cs) - successful,
              schemas_applied |-> schemas_applied]]

(***************************************************************************)
(* DocumentChunker.chunk_content                                           *)
(***************************************************************************)
\* _chunk_table written without its test for blank content
ChunkTable_KeepsBlank(table, table_index) ==
    << [chunk_id |-> <<"table", table_index>>,
        chunk_index |-> 10 * (1000 + table_index),
        content |-> table,
        content_type |-> "table",
        metadata |-> [table_index |-> table_index, chunk_type |-> "table"]] >>

\* _chunk_table: a table whose content is None makes .strip() raise
ChunkTable(table, table_index) ==
    IF Strip(table) = <<>> THEN <<>>
    ELSE << [chunk_id |-> <<"table", table_index>>,
             chunk_index |-> 10 * (1000 + table_index),
             content |-> table,
             content_type |-> "table",
             metadata |-> [table_index |-> table_index, chunk_type |-> "table"]] >>

CreateImageChunk(image, image_index) ==
    [chunk_id |-> <<"image", image_index>>,
     chunk_index |-> 10 * (2000 + image_index),
     content |-> <<"I", "m", "a", "g", "e", " ", ToString(image_index + 1), ":", " ">>
                     \o image,
     content_type |-> "image",
     metadata |-> [image_index |-> image_index, chunk_type |-> "image"]]

\* the loop over enumerate(content['tables']): the tables that give a chunk,
\* each with its position in content['tables']
ChunkTables(tables, table_index) ==
    LET indexed == [i \in 1..Len(tables) |->
                       [table |-> tables[i], index |-> table_index + i - 1]]
        kept == SelectSeq(indexed, LAMBDA t : ChunkTable(t.table, t.index) # <<>>)
    IN  [i \in 1..Len(kept) |-> ChunkTable(kept[i].table, kept[i].index)[1]]

ChunkImages(images) == [i \in 1..Len(images) |-> CreateImageChunk(images[i], i - 1)]

\* list.sort(key=chunk_index), a stable sort: a chunk goes behind the chunks
\* of a smaller index and behind the earlier chunks of the same index
SortByIndex(cs) ==
    LET placed == {<<1 + Cardinality({j \in 1..Len(cs) :
                          \/ cs[j].chunk_index < cs[i].chunk_index
                          \/ cs[j].chunk_index = cs[i].chunk_index /\ j < i}), i>> :
                      i \in 1..Len(cs)}
    IN  [p \in 1..Len(cs) |-> cs[(CHOOSE pl \in placed : pl[1] = p)[2]]]

\* content['tables'] holds a table whose 'content' is None
TableRaises(c) == \E i \in 1..Len(c.tables) : c.tables[i] = NoText

ChunkContentResult(c, cfg) ==
    SortByIndex(
        (IF c.text # NoText /\ c.text # <<>> THEN ChunkText(c.text, cfg) ELSE <<>>)
            \o ChunkTables(c.tables, 0)
            \o ChunkImages(c.images))

(***************************************************************************)
(* Inputs of the chunker                                                   *)
(***************************************************************************)
DefaultConfig == [max_chunk_size |-> 1000, min_chunk_size |-> 200, overlap_size |-> 100]

SmallConfigs ==
    {[max_chunk_size |-> mx, min_chunk_size |-> mn, overlap_size |-> ov] :
        mx \in 2..MaxSizeBound, mn \in 1..MaxSizeBound, ov \in 1..MaxOverlap}

Configs == {cfg \in SmallConfigs : cfg.min_chunk_size < cfg.max_chunk_size
                                      /\ cfg.overlap_size < cfg.max_chunk_size}

Texts == SeqsUpTo(Char, MaxTextLen) \cup {NoText}

TableContents == {<<>>, <<" ">>, <<"a">>, NoText}

ImageContents == {<<>>, <<"a">>}

Contents ==
    {[text |-> t, tables |-> <<>>, images |-> <<>>] : t \in Texts}
        \cup {[text |-> t, tables |-> tb, images |-> im] :
                 t \in {x \in Texts : Len(x) <= 1},
                 tb \in SeqsUpTo(TableContents, MaxTables),
                 im \in SeqsUpTo(ImageContents, MaxImages)}

\* contents of the chunks the paragraph loop can hand to the optimisation pass
OptContents ==
    {<<"a">>, <<"a", "a">>, <<"a", "a", "a">>, <<"a", "a", "a", "a">>,
     <<"a", ".", " ", "a">>, <<"a", "a", ".", " ", "a">>, <<"a", ".", " ", "a", ".", " ", "a">>}

ScenarioContents == {Rep("a", 900), Rep("a", 50)}

ChunkList(contents) == [i \in 1..Len(contents) |-> CreateTextChunk(contents[i], "text", i - 1)]

InputChunkLists == {ChunkList(cs) : cs \in SeqsUpTo(OptContents, MaxInputChunks)}

ScenarioChunkLists == {ChunkList(cs) : cs \in SeqsUpTo(ScenarioContents, 2)}

\* documents with as many tables as the index offset of the images leaves room
\* for, and more
ManyTablesContents ==
    {[text |-> <<>>, tables |-> Rep(<<"a">>, n), images |-> << <<"a">> >>] :
        n \in {999, 1000, 1001, 1002}}

NoContent == [text |-> NoText, tables |-> <<>>, images |-> <<>>]

(***************************************************************************)
(* The chunker as a state machine                                          *)
(***************************************************************************)
ChunkerIdle ==
    /\ config = DefaultConfig
    /\ content = NoContent
    /\ input_chunks = <<>>
    /\ chunks = <<>>
    /\ raised = FALSE

NoExtraction == [schema_matches |-> <<>>, categories |-> <<>>, schemas_applied |-> <<>>]

ExtractorIdle ==
    /\ chunk_text = <<>>
    /\ schema_names = <<>>
    /\ options = [extract_categories |-> FALSE]
    /\ extracted = NoExtraction
    /\ extractions = <<>>

ProcessorIdle ==
    /\ processed_chunks = <<>>
    /\ supabase_available = TRUE
    /\ insert_ok = TRUE
    /\ chunk_records = <<>>
    /\ aggregated = <<>>
    /\ doc_chunks = <<>>
    /\ processing_status = "processing"
    /\ record_ok = TRUE
    /\ update_ok = TRUE
    /\ documents = [d \in {} |-> <<>>]
    /\ processed_embeddings = {}

\* no method of the loader was called yet
NoResult == [kind |-> "pending"]

LoaderIdle ==
    /\ schemas = EmptyMap
    /\ vocabularies = EmptyMap
    /\ loader_name = ""
    /\ loader_result = NoResult

InitChunker ==
    /\ LoaderIdle
    /\ pc = "start"
    /\ ExtractorIdle
    /\ ProcessorIdle
    /\ chunks = <<>>
    /\ raised = FALSE
    /\ \/ /\ call = "chunk_content"
          /\ config \in Configs
          /\ content \in Contents
          /\ input_chunks = <<>>
       \/ /\ call = "chunk_content"
          /\ config = DefaultConfig
          /\ content \in ManyTablesContents
          /\ input_chunks = <<>>
       \/ /\ call = "_optimize_chunk_sizes"
          /\ content = NoContent
          /\ \/ config \in Configs /\ input_chunks \in InputChunkLists
             \/ config = DefaultConfig /\ input_chunks \in ScenarioChunkLists

\* DocumentChunker.chunk_content(content, document_id)
ChunkContent ==
    /\ call = "chunk_content" /\ pc = "start"
    /\ pc' = "done"
    /\ IF TableRaises(content)
       THEN raised' = TRUE /\ chunks' = <<>>
       ELSE raised' = FALSE /\ chunks' = ChunkContentResult(content, config)
    /\ UNCHANGED <<loader_vars, call, config, content, input_chunks, extractor_vars, processor_vars>>

\* DocumentChunker._optimize_chunk_sizes(chunks, document_id)
OptimizeCall ==
    /\ call = "_optimize_chunk_sizes" /\ pc = "start"
    /\ pc' = "done"
    /\ chunks' = OptimizeChunkSizes(input_chunks, config)
    /\ UNCHANGED <<loader_vars, call, config, content, input_chunks, raised, extractor_vars, processor_vars>>

NextChunker == ChunkContent \/ OptimizeCall

SpecChunker == InitChunker /\ [][NextChunker]_vars

(***************************************************************************)
(* The chunker constructed with any configuration                          *)
(***************************************************************************)
MaxAnyConfigTextLen == 3

AnyConfigContents ==
    {[text |-> t, tables |-> <<>>, images |-> <<>>] :
        t \in SeqsUpTo(Char, MaxAnyConfigTextLen) \cup {NoText}}

InitChunkerAnyConfig ==
    /\ LoaderIdle
    /\ pc = "new"
    /\ call = "chunk_content"
    /\ ExtractorIdle
    /\ ProcessorIdle
    /\ chunks = <<>>
    /\ raised = FALSE
    /\ input_chunks = <<>>
    /\ config \in SmallConfigs
    /\ content \in AnyConfigContents

\* DocumentChunker.__init__(config): self.config = config or ChunkConfig();
\* neither the dataclass nor the constructor looks at the sizes
ConstructChunker ==
    /\ pc = "new"
    /\ pc' = "start"
    /\ raised' = FALSE
    /\ UNCHANGED <<loader_vars, call, config, content, input_chunks, chunks, extractor_vars, processor_vars>>

NextChunkerAnyConfig == ConstructChunker \/ ChunkContent

SpecChunkerAnyConfig == InitChunkerAnyConfig /\ [][NextChunkerAnyConfig]_vars

(***************************************************************************)
(* SchemaExtractor: the field extractors                                   *)
(*                                                                         *)
(* The text handed to the extractor is a sequence of lexical pieces, each  *)
(* a literal the regular expressions of the extractor treat as a unit:     *)
(* the keyword "invoice no" (a match of invoice\s+no), the keyword         *)
(* "total", a blank, the digit group "12", the letter "A" and a hyphen.    *)
(***************************************************************************)
ExtractChar == {"invoice no", "total", " ", "12", "A", "-"}

\* the piece begins and ends with a \w character
IsWordPiece(c) == c \in {"invoice no", "total", "12", "A"}

\* \d+
IsDigits(c) == c = "12"

\* the piece is made of [A-Z0-9\-] characters only (re.IGNORECASE)
IsReferencePiece(c) == c \in {"total", "12", "A", "-"}

\* the piece begins with a [A-Z0-9\-] character
StartsReference(c) == IsReferencePiece(c) \/ c = "invoice no"

\* field_name.replace("_", r"\s+") as a piece of the text, "" when the text
\* alphabet has no match for it
KeywordOf(field_name) ==
    CASE field_name = "invoice_no" -> "invoice no"
      [] field_name = "total" -> "total"
      [] OTHER -> ""

\* the first position >= j that holds no blank, Len(s) + 1 when there is none
SkipBlanks(s, j) ==
    LET rest == {k \in j..Len(s) : s[k] # " "}
    IN  IF rest = {} THEN Len(s) + 1 ELSE Min(rest)

\* the end of the maximal run of [A-Z0-9\-] pieces that starts at j
ReferenceRunEnd(s, j) ==
    LET stops == {k \in j..Len(s) : ~IsReferencePiece(s[k])}
    IN  IF stops = {} THEN Len(s) ELSE Min(stops) - 1

\* the end of the maximal run of digit groups that starts at j
DigitRunEnd(s, j) ==
    LET stops == {k \in j..Len(s) : ~IsDigits(s[k])}
    IN  IF stops = {} THEN Len(s) ELSE Min(stops) - 1

NoMatch(empty) == [value |-> empty, confidence |-> 0]

\* ([A-Z0-9\-]+) matched from position j
ReferenceGroup(s, j) ==
    LET e == ReferenceRunEnd(s, j)
    IN  IF e < Len(s) /\ s[e + 1] = "invoice no"
        THEN SubSeq(s, j, e) \o <<"invoice">>
        ELSE SubSeq(s, j, e)

ExtractReferenceField(text, field_name) ==
    LET hits == {i \in 1..Len(text) :
                    /\ text[i] = KeywordOf(field_name)
                    /\ SkipBlanks(text, i + 1) <= Len(text)
                    /\ StartsReference(text[SkipBlanks(text, i + 1)])}
    IN  IF hits = {} THEN NoMatch(<<>>)
        ELSE [value |-> ReferenceGroup(text, SkipBlanks(text, Min(hits) + 1)),
              confidence |-> 80]

\* name[:\s]+([^.\n]+), the group stripped
ExtractNamedField(text, field_name) ==
    LET hits == {i \in 1..Len(text) :
                    /\ text[i] = KeywordOf(field_name)
                    /\ i + 2 <= Len(text)
                    /\ text[i + 1] = " "}
    IN  IF hits = {} THEN NoMatch(<<>>)
        ELSE LET i == Min(hits)
                 j == IF SkipBlanks(text, i + 1) <= Len(text)
                      THEN SkipBlanks(text, i + 1)
                      ELSE Len(text)
             IN  [value |-> Strip(SubSeq(text, j, Len(text))), confidence |-> 70]

\* the vocabularies the loader holds: name -> enum name -> values
Vocabularies == [terms |-> [keywords |-> <<"total">>]]

\* schema_loader.get_vocabulary(name) is not None
VocabularyLoaded(vocab_name) == vocab_name \in DOMAIN Vocabularies

\* vocab_name, enum_name = field_def['enum_ref'].split('.') raises ValueError:
\* enum_ref is kept as the list of its dot-separated parts
EnumRefMalformed(field_def) == Len(field_def.enum_ref) # 2

\* the reference names a loaded vocabulary that holds the enum
EnumRefResolves(field_def) ==
    /\ ~EnumRefMalformed(field_def)
    /\ VocabularyLoaded(field_def.enum_ref[1])
    /\ field_def.enum_ref[2] \in DOMAIN Vocabularies[field_def.enum_ref[1]]

\* enum_value.lower() in text.lower(), for a value that is a piece of the text
ContainsValue(text, enum_value) == \E i \in 1..Len(text) : text[i] = enum_value

ExtractEnumRefField(text, field_name, field_def) ==
    IF ~EnumRefResolves(field_def) THEN NoMatch(<<>>)
    ELSE LET enum_values == Vocabularies[field_def.enum_ref[1]][field_def.enum_ref[2]]
             hits == {k \in 1..Len(enum_values) : ContainsValue(text, enum_values[k])}
         IN  IF hits = {} THEN NoMatch(<<>>)
             ELSE [value |-> <<enum_values[Min(hits)]>>, confidence |-> 90]

ExtractStringField(text, field_name, field_def) ==
    IF "enum_ref" \in DOMAIN field_def
    THEN ExtractEnumRefField(text, field_name, field_def)
    ELSE IF field_name \in {"invoice_no", "reference", "invoice_number"}
         THEN ExtractReferenceField(text, field_name)
         ELSE ExtractNamedField(text, field_name)

\* float() of a run of digit groups
RECURSIVE DigitsValue(_)
DigitsValue(ds) ==
    IF ds = <<>> THEN 0 ELSE 100 * DigitsValue(SubSeq(ds, 1, Len(ds) - 1)) + 12

DigitRun(s, j) == SubSeq(s, j, DigitRunEnd(s, j))

\* (?:total|amount|sum|grand total)[:\s]*[\$...]?\s*(\d+(?:,\d{3})*(?:\.\d+)?)
TotalMatches(text) ==
    {i \in 1..Len(text) :
        /\ text[i] = "total"
        /\ SkipBlanks(text, i + 1) <= Len(text)
        /\ IsDigits(text[SkipBlanks(text, i + 1)])}

\* \b\d+(?:,\d{3})*(?:\.\d+)?\b
NumberMatches(text) ==
    {i \in 1..Len(text) :
        /\ IsDigits(text[i])
        /\ (i = 1 \/ ~IsWordPiece(text[i - 1]))
        /\ LET e == DigitRunEnd(text, i)
           IN  e = Len(text) \/ ~IsWordPiece(text[e + 1])}

ExtractNumberField(text, field_name) ==
    IF field_name \in {"grand_total", "total", "amount"} /\ TotalMatches(text) # {}
    THEN [value |-> DigitsValue(DigitRun(text, SkipBlanks(text, Min(TotalMatches(text)) + 1))),
          confidence |-> 90]
    ELSE IF NumberMatches(text) # {}
         THEN [value |-> DigitsValue(DigitRun(text, Min(NumberMatches(text)))),
               confidence |-> 70]
         ELSE NoMatch(0)

\* a list field other than 'parties'
ExtractListField(text, field_name) == [value |-> <<>>, confidence |-> 50]

ExtractObjectField(text, field_name) == [value |-> <<>>, confidence |-> 50]

NoneResult == [value |-> <<>>, confidence |-> -1]

\* the extractor returned None
IsNone(field_value) == field_value.confidence = -1

\* _extract_field; NoneResult stands for the None of an unknown type
ExtractField(text, field_name, field_def) ==
    CASE field_def.type = "string" -> ExtractStringField(text, field_name, field_def)
      [] field_def.type = "list" -> ExtractListField(text, field_name)
      [] field_def.type = "number" -> ExtractNumberField(text, field_name)
      [] field_def.type = "object" -> ExtractObjectField(text, field_name)
      [] OTHER -> NoneResult

(***************************************************************************)
(* SchemaExtractor: schemas and extract_from_chunk                         *)
(***************************************************************************)
DefaultThreshold == 70

\* options.get('confidence_threshold', 0.7)
ConfidenceThreshold(opts) ==
    IF "confidence_threshold" \in DOMAIN opts
    THEN opts.confidence_threshold
    ELSE DefaultThreshold

\* the schemas the loader holds
Schemas ==
    [invoice |-> [fields |-> [invoice_no |-> [type |-> "string"],
                              grand_total |-> [type |-> "number"]],
                  required |-> {"invoice_no", "grand_total"}],
     receipt |-> [fields |-> [grand_total |-> [type |-> "number"],
                              line_items |-> [type |-> "list"]],
                  required |-> {"grand_total"}],
     ledger  |-> [fields |-> [quantity |-> [type |-> "number"],
                              details |-> [type |-> "object"],
                              total |-> [type |-> "string"]],
                  required |-> {"quantity", "details"}],
     memo    |-> [fields |-> [details |-> [type |-> "object"],
                              stamp |-> [type |-> "date"]],
                  required |-> {}],
     support_case |-> [fields |-> [category |-> [type |-> "string",
                                                 enum_ref |-> <<"terms", "keywords">>],
                                   priority |-> [type |-> "string",
                                                 enum_ref |-> <<"terms", "levels">>]],
                       required |-> {"category"}],
     refund_case |-> [fields |-> [amount |-> [type |-> "number"],
                                  reason |-> [type |-> "string",
                                              enum_ref |-> <<"reasons", "keywords">>]],
                      required |-> {}],
     broken  |-> [fields |-> [details |-> [type |-> "object"],
                              category |-> [type |-> "string",
                                            enum_ref |-> <<"terms">>]],
                  required |-> {}]]

\* schema_loader.get_schema(name) is not None
SchemaLoaded(name) == name \in DOMAIN Schemas

\* _extract_field raises for the field: the unpacking of a malformed enum_ref
FieldRaises(field_def) ==
    field_def.type = "string" /\ "enum_ref" \in DOMAIN field_def /\ EnumRefMalformed(field_def)

\* _apply_schema raises: its field loop meets a field whose extractor raises
ApplySchemaRaises(schema) == \E f \in DOMAIN schema.fields : FieldRaises(schema.fields[f])

\* extract_from_chunk raises: no try/except surrounds the schema loop
ExtractRaises(names) ==
    \E i \in 1..Len(names) : SchemaLoaded(names[i]) /\ ApplySchemaRaises(Schemas[names[i]])

\* the threshold test written with > in place of >=
ExtractedFields_StrictlyAbove(text, schema, opts) ==
    {f \in DOMAIN schema.fields :
        LET field_value == ExtractField(text, f, schema.fields[f])
        IN  ~IsNone(field_value)
                /\ field_value.confidence > ConfidenceThreshold(opts)}

\* the fields _apply_schema retains: confidence at or above the threshold
ExtractedFields(text, schema, opts) ==
    {f \in DOMAIN schema.fields :
        LET field_value == ExtractField(text, f, schema.fields[f])
        IN  ~IsNone(field_value)
                /\ field_value.confidence >= ConfidenceThreshold(opts)}

\* the required-field check written with any() in place of all()
SchemaRejected_AnyRequired(text, schema, opts) ==
    schema.required # {} /\ schema.required \cap ExtractedFields(text, schema, opts) = {}

\* _apply_schema(...) returned None
SchemaRejected(text, schema, opts) ==
    schema.required # {} /\ ~(schema.required \subseteq ExtractedFields(text, schema, opts))

\* the dictionary _apply_schema returns when it does not return None
ApplySchema(text, schema, opts) ==
    [f \in ExtractedFields(text, schema, opts) |->
        ExtractField(text, f, schema.fields[f]).value]

\* the schema loop written so that an unknown name ends it
MatchedNames_StopAtUnknown(text, names, opts) ==
    {names[i] : i \in {k \in 1..Len(names) :
        /\ \A j \in 1..k : SchemaLoaded(names[j])
        /\ ~SchemaRejected(text, Schemas[names[k]], opts)
        /\ ExtractedFields(text, Schemas[names[k]], opts) # {}}}

\* the schema names that get a key in schema_matches
MatchedNames(text, names, opts) ==
    {names[i] : i \in {k \in 1..Len(names) :
        /\ SchemaLoaded(names[k])
        /\ ~SchemaRejected(text, Schemas[names[k]], opts)
        /\ ExtractedFields(text, Schemas[names[k]], opts) # {}}}

ExtractCategories(schema_matches) ==
    (IF "contract_terms" \in DOMAIN schema_matches THEN <<"legal_contract">> ELSE <<>>)
        \o (IF "invoice" \in DOMAIN schema_matches THEN <<"financial_document">> ELSE <<>>)
        \o (IF "refund_case" \in DOMAIN schema_matches THEN <<"customer_service">> ELSE <<>>)

ExtractFromChunk(text, names, opts) ==
    LET schema_matches == [n \in MatchedNames(text, names, opts) |->
                              ApplySchema(text, Schemas[n], opts)]
    IN  [schema_matches |-> schema_matches,
         categories |-> IF "extract_categories" \in DOMAIN opts /\ opts.extract_categories
                        THEN ExtractCategories(schema_matches)
                        ELSE <<>>,
         schemas_applied |-> names]

(***************************************************************************)
(* The schema extractor as a state machine                                 *)
(***************************************************************************)
SchemaNameLists ==
    {<<"invoice">>,
     <<"missing", "invoice">>,
     <<"invoice", "receipt", "ledger", "memo", "missing">>,
     <<"support_case", "missing", "refund_case">>,
     <<"invoice", "broken", "memo">>}

Thresholds == {50, 70, 90}

OptionSets ==
    {[extract_categories |-> TRUE]}
        \cup {[extract_categories |-> TRUE, confidence_threshold |-> t] : t \in Thresholds}

\* the options _run_schema_extraction prepares
RunOptions ==
    [extract_entities |-> TRUE, extract_categories |-> TRUE, confidence_threshold |-> 70]

\* {'error': str(e)}: the result _run_schema_extraction returns for an exception
ErrorExtraction ==
    [schema_matches |-> <<>>, categories |-> <<>>, schemas_applied |-> <<>>, error |-> TRUE]

InitExtractor ==
    /\ LoaderIdle
    /\ pc = "start"
    /\ ChunkerIdle
    /\ ProcessorIdle
    /\ chunk_text \in SeqsUpTo(ExtractChar, MaxExtractLen)
    /\ schema_names \in SchemaNameLists
    /\ extracted = NoExtraction
    /\ extractions = <<>>
    /\ \/ call = "extract_from_chunk" /\ options \in OptionSets
       \/ call = "_run_schema_extraction" /\ options = RunOptions

\* SchemaExtractor.extract_from_chunk(text, schema_names, options)
ExtractCall ==
    /\ call = "extract_from_chunk" /\ pc = "start"
    /\ pc' = "done"
    /\ IF ExtractRaises(schema_names)
       THEN raised' = TRUE /\ extracted' = NoExtraction
       ELSE raised' = FALSE
                /\ extracted' = ExtractFromChunk(chunk_text, schema_names, options)
    /\ UNCHANGED <<loader_vars, call, config, content, input_chunks, chunks,
                   chunk_text, schema_names, options, extractions, processor_vars>>

\* MetadataExtractor._run_schema_extraction(text, schemas)
RunSchemaExtraction ==
    /\ call = "_run_schema_extraction" /\ pc = "start"
    /\ pc' = "done"
    /\ extracted' = IF ExtractRaises(schema_names)
                    THEN ErrorExtraction
                    ELSE ExtractFromChunk(chunk_text, schema_names, RunOptions)
    /\ UNCHANGED <<loader_vars, call, chunker_vars, chunk_text, schema_names, options,
                   extractions, processor_vars>>

NextExtractor == ExtractCall \/ RunSchemaExtraction

SpecExtractor == InitExtractor /\ [][NextExtractor]_vars

(***************************************************************************)
(* SchemaExtractor.extract_from_chunk invoked again on the same input      *)
(*                                                                         *)
(* The text is a sequence of pieces: the phrases the patterns of           *)
(* _extract_key_phrases look for, a blank and a full stop.                 *)
(***************************************************************************)
MaxPhraseTextLen == 3

KeyPhrasesCap == 5

\* the alternatives of the three important_patterns
ImportantPatterns ==
    <<{"payment terms", "governing law"}, {"due date", "issue date"}, {"parties", "renewal"}>>

PhraseChar == UNION {ImportantPatterns[k] : k \in 1..3} \cup {" ", "."}

\* \w at the edge of a piece
IsPhrasePiece(c) == \E k \in 1..3 : c \in ImportantPatterns[k]

\* re.findall(r'\b(?:...)\b', text, re.IGNORECASE) for one pattern: the pieces
\* of the text that are one of its alternatives and stand between word
\* boundaries, in text order
FindPhrases(text, alternatives) ==
    LET hits == SelectSeq([i \in 1..Len(text) |-> i],
                    LAMBDA i : /\ text[i] \in alternatives
                               /\ (i = 1 \/ ~IsPhrasePiece(text[i - 1]))
                               /\ (i = Len(text) \/ ~IsPhrasePiece(text[i + 1])))
    IN  [h \in 1..Len(hits) |-> text[hits[h]]]

\* key_phrases before the set is taken
KeyPhraseMatches(text) ==
    FindPhrases(text, ImportantPatterns[1])
        \o FindPhrases(text, ImportantPatterns[2])
        \o FindPhrases(text, ImportantPatterns[3])

\* _extract_key_phrases: list(set(key_phrases))[:5], for each order the set of
\* strings can be listed in
ExtractKeyPhrases(text) ==
    {Take(order, KeyPhrasesCap) : order \in ListOrders(SeqToSet(KeyPhraseMatches(text)))}

\* extracted_data of one invocation; a text of these pieces holds no name and
\* no amount of money, so that entities is empty
ExtractedData(text, names, opts, key_phrases) ==
    LET data == ExtractFromChunk(text, names, opts)
    IN  [entities |-> <<>>,
         categories |-> data.categories,
         key_phrases |-> key_phrases,
         schema_matches |-> data.schema_matches]

InitExtractorRepeat ==
    /\ LoaderIdle
    /\ pc = "start"
    /\ ChunkerIdle
    /\ ProcessorIdle
    /\ call = "extract_from_chunk"
    /\ chunk_text \in SeqsUpTo(PhraseChar, MaxPhraseTextLen)
    /\ schema_names \in {<<"invoice">>, <<"missing", "memo">>}
    /\ options = RunOptions
    /\ extracted = NoExtraction
    /\ extractions = <<>>

\* extract_from_chunk(text, schema_names, options), invoked twice
ExtractAgain ==
    /\ call = "extract_from_chunk" /\ pc = "start"
    /\ \E key_phrases \in ExtractKeyPhrases(chunk_text) :
           extractions' = Append(extractions,
               ExtractedData(chunk_text, schema_names, options, key_phrases))
    /\ pc' = IF Len(extractions) = 1 THEN "done" ELSE "start"
    /\ UNCHANGED <<loader_vars, call, chunker_vars, chunk_text, schema_names, options,
                   extracted, processor_vars>>

NextExtractorRepeat == ExtractAgain

SpecExtractorRepeat == InitExtractorRepeat /\ [][NextExtractorRepeat]_vars

(***************************************************************************)
(* The storage and aggregation steps as a state machine                    *)
(***************************************************************************)
\* {}: what extract_metadata returns for a blank text
NoMetadata ==
    [kind |-> "empty", langextract_error |-> FALSE, likely_types |-> <<>>,
     important_entities |-> <<>>, document_sections |-> <<>>, action_items |-> <<>>]

\* MetadataExtractor.extract_metadata for a text described by what its steps
\* give: kind "error" is {'error': ...}, kind "enhanced" the dictionary of
\* _enhance_metadata, whose langextract_result is {'error': ...} when the
\* schema extraction raised
ExtractMetadata(analysis) ==
    IF analysis.blank THEN NoMetadata
    ELSE IF analysis.executor_fails THEN [NoMetadata EXCEPT !.kind = "error"]
    ELSE [kind |-> "enhanced",
          langextract_error |-> analysis.schema_extraction_raises,
          likely_types |-> analysis.likely_types,
          important_entities |-> analysis.important_entities,
          document_sections |-> analysis.document_sections,
          action_items |-> analysis.action_items]

EmbeddingLengths == {0, 512, EmbeddingDimension, EmbeddingDimension + 1}

EmbeddingMaps == {EmptyMap} \cup {[text |-> Rep(0, n)] : n \in EmbeddingLengths}

ProcessedChunk(i, embeddings, extracted_metadata) ==
    [chunk_id |-> <<"chunk", i>>,
     chunk_index |-> i,
     content |-> <<"a", "a">>,
     embeddings |-> embeddings,
     extracted_metadata |-> extracted_metadata]

EmbeddedChunkLists ==
    {[i \in 1..Len(es) |-> ProcessedChunk(i - 1, es[i], NoMetadata)] :
        es \in SeqsUpTo(EmbeddingMaps, MaxProcessedChunks)}

Entity(text) == [text |-> text, label |-> "PERSON"]

\* what the steps of extract_metadata give for a text that is neither blank
\* nor hit by a failure outside the schema extraction
Analysis(schema_extraction_raises, likely_types, important_entities, n_items) ==
    [blank |-> FALSE, executor_fails |-> FALSE,
     schema_extraction_raises |-> schema_extraction_raises,
     likely_types |-> likely_types,
     important_entities |-> important_entities,
     document_sections |-> [k \in 1..n_items |-> <<"section", k>>],
     action_items |-> [k \in 1..n_items |-> <<"action", k>>]]

BlankAnalysis == [Analysis(FALSE, <<>>, <<>>, 0) EXCEPT !.blank = TRUE]

FailedAnalysis == [Analysis(FALSE, <<>>, <<>>, 0) EXCEPT !.executor_fails = TRUE]

\* texts with many entities, sections and action items; the entity texts of
\* the two overlap when case is ignored
RichAnalyses ==
    {Analysis(FALSE, <<"invoice">>, [k \in 1..14 |-> Entity(<<"A", ToString(k)>>)], 6),
     Analysis(FALSE, <<"invoice">>, [k \in 1..14 |-> Entity(<<"a", ToString(k + 7), " ">>)], 6)}

TextAnalyses ==
    {BlankAnalysis, FailedAnalysis}
        \cup {Analysis(FALSE, ts, <<>>, 0) :
                 ts \in {<<>>, <<"invoice">>, <<"contract">>, <<"invoice", "contract">>}}
        \cup {Analysis(TRUE, ts, <<>>, 0) : ts \in {<<>>, <<"invoice">>}}
        \cup RichAnalyses

MetadataChoices == {ExtractMetadata(a) : a \in TextAnalyses}

ExtractedChunkLists ==
    {[i \in 1..Len(ms) |-> ProcessedChunk(i - 1, [text |-> <<0>>], ms[i])] :
        ms \in SeqsUpTo(MetadataChoices, MaxProcessedChunks)}

\* what the embedding gateway does for one text: openai_client.is_available(),
\* whether generate_embedding raises, and the vector it returns
GatewayOutcomes ==
    {[available |-> FALSE, raises |-> FALSE, vector |-> <<>>],
     [available |-> TRUE, raises |-> TRUE, vector |-> <<>>]}
        \cup {[available |-> TRUE, raises |-> FALSE, vector |-> Rep(0, n)] :
                 n \in EmbeddingLengths}

\* DocumentProcessor._generate_embeddings
GenerateEmbeddings(gateway) ==
    IF ~gateway.available THEN EmptyMap
    ELSE IF gateway.raises THEN EmptyMap
    ELSE IF gateway.vector = <<>> \/ Len(gateway.vector) = 0 THEN EmptyMap
    ELSE IF Len(gateway.vector) # EmbeddingDimension THEN EmptyMap
    ELSE [text |-> gateway.vector]

\* DocumentProcessor._process_chunks
ProcessChunks(cs) ==
    [i \in 1..Len(cs) |->
        ProcessedChunk(i - 1, GenerateEmbeddings(cs[i].gateway), ExtractMetadata(cs[i].analysis))]

\* the chunks of a document as process_document meets them
DocumentChunks ==
    {[analysis |-> a, gateway |-> g] :
        a \in {Analysis(FALSE, <<"invoice">>, <<>>, 0)},
        g \in GatewayOutcomes}

DocumentChunkLists == SeqsUpTo(DocumentChunks, MaxProcessedChunks)

InitProcessor ==
    /\ LoaderIdle
    /\ pc = "start"
    /\ ChunkerIdle
    /\ ExtractorIdle
    /\ chunk_records = <<>>
    /\ aggregated = <<>>
    /\ processing_status = "processing"
    /\ documents = EmptyMap
    /\ processed_embeddings = {}
    /\ \/ /\ call = "_store_processed_chunks"
          /\ processed_chunks \in EmbeddedChunkLists
          /\ supabase_available \in BOOLEAN
          /\ insert_ok \in BOOLEAN
          /\ record_ok = TRUE
          /\ update_ok = TRUE
          /\ doc_chunks = <<>>
       \/ /\ call = "_aggregate_document_metadata"
          /\ processed_chunks \in ExtractedChunkLists
          /\ supabase_available = TRUE
          /\ insert_ok = TRUE
          /\ record_ok = TRUE
          /\ update_ok = TRUE
          /\ doc_chunks = <<>>
       \/ /\ call = "process_document"
          /\ processed_chunks = <<>>
          /\ supabase_available \in BOOLEAN
          /\ insert_ok \in BOOLEAN
          /\ record_ok \in BOOLEAN
          /\ update_ok \in BOOLEAN
          /\ doc_chunks \in DocumentChunkLists

\* DocumentProcessor._store_processed_chunks(chunks, document_id, user_id)
StoreProcessedChunks ==
    /\ call = "_store_processed_chunks" /\ pc = "start"
    /\ pc' = "done"
    /\ IF ~supabase_available
       THEN chunk_records' = <<>> /\ raised' = FALSE
       ELSE LET records == BuildChunkRecords(processed_chunks)
            IN  /\ chunk_records' = records
                /\ raised' = (records = <<>> \/ ~insert_ok)
    /\ UNCHANGED <<loader_vars, call, config, content, input_chunks, chunks, extractor_vars,
                   processed_chunks, supabase_available, insert_ok, aggregated,
                   doc_chunks, processing_status, record_ok, update_ok, documents,
                   processed_embeddings>>

\* DocumentProcessor._aggregate_document_metadata(processed_chunks), called twice
AggregateCall ==
    /\ call = "_aggregate_document_metadata" /\ pc = "start"
    /\ \E order \in ListOrders(SchemasAppliedSet(processed_chunks)) :
           aggregated' = Append(aggregated,
                                AggregateDocumentMetadata(processed_chunks, order))
    /\ pc' = IF Len(aggregated) = 1 THEN "done" ELSE "start"
    /\ UNCHANGED <<loader_vars, call, chunker_vars, extractor_vars,
                   processed_chunks, supabase_available, insert_ok, chunk_records,
                   doc_chunks, processing_status, record_ok, update_ok, documents,
                   processed_embeddings>>

\* str(uuid.uuid4()): the document id process_document draws for the run, an
\* id no record of the table has
NewDocumentId == "uuid-new"

\* _create_document_record: the record as it is inserted
NewDocumentRecord == [processing_status |-> "processing", metadata |-> EmptyMap]

\* the rows of the insert of _store_processed_chunks: each record with the id
\* _process_chunks drew for it and the document id of the run
InsertedRows(records, document_id) ==
    {[id |-> <<"uuid-new", records[r].chunk_index>>,
      document_id |-> document_id,
      chunk_id |-> records[r].chunk_id] : r \in 1..Len(records)}

\* _update_document_status: the table after the update; nothing changes when
\* Supabase is unavailable, the update fails or no record has the id
UpdateDocumentStatus(table, document_id, status, metadata) ==
    IF supabase_available /\ update_ok /\ document_id \in DOMAIN table
    THEN [table EXCEPT ![document_id] =
             IF status = "completed"
             THEN [processing_status |-> status, metadata |-> metadata]
             ELSE [@ EXCEPT !.processing_status = status]]
    ELSE table

\* process_document from the chunk list on, for the run of one document: the
\* document record is created, the chunks are processed and stored, the
\* metadata is aggregated and the status updated; an exception of any step
\* marks the document failed and is raised again as RuntimeError
ProcessDocumentRun ==
    LET processed == ProcessChunks(doc_chunks)
        records == BuildChunkRecords(processed)
        created == IF supabase_available /\ record_ok
                   THEN (NewDocumentId :> NewDocumentRecord) @@ documents
                   ELSE documents
    IN  IF supabase_available /\ ~record_ok
        THEN \* _create_document_record raises
             /\ raised' = TRUE
             /\ processing_status' = "failed"
             /\ processed_chunks' = <<>>
             /\ chunk_records' = <<>>
             /\ aggregated' = <<>>
             /\ documents' = UpdateDocumentStatus(created, NewDocumentId, "failed", EmptyMap)
             /\ processed_embeddings' = processed_embeddings
        ELSE IF supabase_available /\ (records = <<>> \/ ~insert_ok)
        THEN \* _store_processed_chunks raises: no valid chunk, or the insert failed
             /\ raised' = TRUE
             /\ processing_status' = "failed"
             /\ processed_chunks' = processed
             /\ chunk_records' = records
             /\ aggregated' = <<>>
             /\ documents' = UpdateDocumentStatus(created, NewDocumentId, "failed", EmptyMap)
             /\ processed_embeddings' = processed_embeddings
        ELSE /\ raised' = FALSE
             /\ processing_status' = "completed"
             /\ processed_chunks' = processed
             /\ chunk_records' = IF supabase_available THEN records ELSE <<>>
             /\ processed_embeddings' =
                    IF supabase_available
                    THEN processed_embeddings \cup InsertedRows(records, NewDocumentId)
                    ELSE processed_embeddings
             /\ \E order \in ListOrders(SchemasAppliedSet(processed)) :
                    LET metadata == AggregateDocumentMetadata(processed, order)
                    IN  /\ aggregated' = <<metadata>>
                        /\ documents' = UpdateDocumentStatus(created, NewDocumentId,
                                                             "completed", metadata)

\* DocumentProcessor.process_document(file_data, filename, user_id, schemas)
ProcessDocument ==
    /\ call = "process_document" /\ pc = "start"
    /\ pc' = "done"
    /\ ProcessDocumentRun
    /\ UNCHANGED <<loader_vars, call, config, content, input_chunks, chunks, extractor_vars,
                   supabase_available, insert_ok, record_ok, update_ok, doc_chunks>>

NextProcessor == StoreProcessedChunks \/ AggregateCall \/ ProcessDocument

SpecProcessor == InitProcessor /\ [][NextProcessor]_vars

(***************************************************************************)
(* reprocess_document: the script that processes a stored document again   *)
(***************************************************************************)
\* document_id of the script: the document that is processed again
ReprocessedId == "D"

OtherId == "E"

\* the rows a table holds for a document from an earlier run
OldRows(document_id, n) ==
    {[id |-> <<"uuid-old", document_id, k>>,
      document_id |-> document_id,
      chunk_id |-> <<"chunk", k>>] : k \in 0..(n - 1)}

\* the metadata an earlier run left in the record of the document
OldMetadata ==
    AggregateDocumentMetadata(<<ProcessedChunk(0, [text |-> <<0>>], NoMetadata)>>, <<>>)

OldRecord == [processing_status |-> "completed", metadata |-> OldMetadata]

InitReprocess ==
    /\ LoaderIdle
    /\ pc = "start"
    /\ ChunkerIdle
    /\ ExtractorIdle
    /\ call = "reprocess_document"
    /\ processed_chunks = <<>>
    /\ chunk_records = <<>>
    /\ aggregated = <<>>
    /\ processing_status = "processing"
    /\ supabase_available \in BOOLEAN
    /\ insert_ok \in BOOLEAN
    /\ record_ok \in BOOLEAN
    /\ update_ok \in BOOLEAN
    /\ doc_chunks \in DocumentChunkLists
    /\ documents \in {(OtherId :> OldRecord),
                      (ReprocessedId :> OldRecord) @@ (OtherId :> OldRecord)}
    /\ \E n \in 0..2 :
           processed_embeddings = OldRows(ReprocessedId, n) \cup OldRows(OtherId, 1)

\* reprocess_document up to the deletion of the existing chunks: the script
\* returns when Supabase is unavailable, the document is not found or the
\* delete raises
DeleteExistingChunks ==
    /\ call = "reprocess_document" /\ pc = "start"
    /\ IF ~supabase_available \/ ReprocessedId \notin DOMAIN documents
       THEN pc' = "returned" /\ UNCHANGED processed_embeddings
       ELSE \E delete_ok \in BOOLEAN :
                IF delete_ok
                THEN /\ pc' = "deleted"
                     /\ processed_embeddings' =
                            {r \in processed_embeddings : r.document_id # ReprocessedId}
                ELSE pc' = "returned" /\ UNCHANGED processed_embeddings
    /\ UNCHANGED <<loader_vars, call, chunker_vars, extractor_vars, processed_chunks,
                   supabase_available, insert_ok, chunk_records, aggregated, doc_chunks,
                   processing_status, record_ok, update_ok, documents>>

\* reprocess_document from the reading of the file on: process_document is
\* called with the file of the document; its exception is caught and printed
ReprocessRun ==
    /\ call = "reprocess_document" /\ pc = "deleted"
    /\ pc' = "done"
    /\ ProcessDocumentRun
    /\ UNCHANGED <<loader_vars, call, config, content, input_chunks, chunks, extractor_vars,
                   supabase_available, insert_ok, record_ok, update_ok, doc_chunks>>

NextReprocess == DeleteExistingChunks \/ ReprocessRun

SpecReprocess == InitReprocess /\ [][NextReprocess]_vars

(***************************************************************************)
(* SchemaLoader                                                            *)
(*                                                                         *)
(* A schema definition is a JSON object with its fields; the loader keeps *)
(* whatever the files of the schema directory held.                        *)
(***************************************************************************)
\* the names of the schema files a schema directory may hold
SchemaFileNames == {"invoice", "support_case", "refund_case", "broken"}

\* self.schemas after _load_all_schemas, for each set of schema files
LoadedSchemas == {[n \in S |-> Schemas[n]] : S \in SUBSET SchemaFileNames}

\* self.vocabularies after _load_vocabularies, for three vocabulary directories
LoadedVocabularies ==
    {EmptyMap,
     Vocabularies,
     [terms |-> [keywords |-> <<"total">>, levels |-> <<"A">>],
      reasons |-> [keywords |-> <<"12">>]]}

LoaderNames == SchemaFileNames \cup {"missing"}

\* None, as a method of the loader returns it
NoneReturned == [kind |-> "none"]

\* the schema mapping read with a default for names it does not hold
GetSchema_UnknownGetsEmpty(loaded, schema_name) ==
    IF schema_name \in DOMAIN loaded
    THEN [kind |-> "schema", schema |-> loaded[schema_name]]
    ELSE [kind |-> "schema", schema |-> EmptyMap]

\* SchemaLoader.get_schema: self.schemas.get(schema_name)
GetSchema(loaded, schema_name) ==
    IF schema_name \in DOMAIN loaded
    THEN [kind |-> "schema", schema |-> loaded[schema_name]]
    ELSE NoneReturned

\* SchemaLoader.get_vocabulary: self.vocabularies.get(vocab_name)
GetVocabulary(vocabs, vocab_name) ==
    IF vocab_name \in DOMAIN vocabs
    THEN [kind |-> "vocabulary", vocabulary |-> vocabs[vocab_name]]
    ELSE NoneReturned

\* SchemaLoader.list_schemas: list(self.schemas.keys()), in the order the
\* files were met, which the directory listing does not fix
ListSchemas(loaded) == ListOrders(DOMAIN loaded)

\* the fields of a definition that carry an enum_ref
ReferenceFields(schema) == {f \in DOMAIN schema.fields : "enum_ref" \in DOMAIN schema.fields[f]}

\* not vocab or enum_name not in vocab
ReferenceUnresolved(vocabs, field_def) ==
    LET vocab == GetVocabulary(vocabs, field_def.enum_ref[1])
    IN  \/ vocab.kind = "none"
        \/ DOMAIN vocab.vocabulary = {}
        \/ field_def.enum_ref[2] \notin DOMAIN vocab.vocabulary

\* SchemaLoader.validate_schema_references: the outcomes of the field loop,
\* which ends at the first field, in the order of the definition's file,
\* whose enum_ref cannot be unpacked (ValueError) or does not resolve (False)
ValidateSchemaReferences(loaded, vocabs, schema_name) ==
    LET got == GetSchema(loaded, schema_name)
    IN  IF got.kind = "none" \/ DOMAIN got.schema = {}
        THEN {[kind |-> "bool", bool |-> FALSE]}
        ELSE LET stops == {f \in ReferenceFields(got.schema) :
                              \/ EnumRefMalformed(got.schema.fields[f])
                              \/ ReferenceUnresolved(vocabs, got.schema.fields[f])}
             IN  IF stops = {}
                 THEN {[kind |-> "bool", bool |-> TRUE]}
                 ELSE {IF EnumRefMalformed(got.schema.fields[f])
                       THEN [kind |-> "raised"]
                       ELSE [kind |-> "bool", bool |-> FALSE] : f \in stops}

InitLoader ==
    /\ pc = "start"
    /\ ChunkerIdle
    /\ ExtractorIdle
    /\ ProcessorIdle
    /\ schemas \in LoadedSchemas
    /\ vocabularies \in LoadedVocabularies
    /\ loader_result = NoResult
    /\ \/ call \in {"get_schema", "validate_schema_references"} /\ loader_name \in LoaderNames
       \/ call = "list_schemas" /\ loader_name = ""

GetSchemaCall ==
    /\ call = "get_schema" /\ pc = "start"
    /\ pc' = "done"
    /\ loader_result' = GetSchema(schemas, loader_name)
    /\ UNCHANGED <<call, chunker_vars, extractor_vars, processor_vars,
                   schemas, vocabularies, loader_name>>

ListSchemasCall ==
    /\ call = "list_schemas" /\ pc = "start"
    /\ pc' = "done"
    /\ \E names \in ListSchemas(schemas) : loader_result' = [kind |-> "list", names |-> names]
    /\ UNCHANGED <<call, chunker_vars, extractor_vars, processor_vars,
                   schemas, vocabularies, loader_name>>

ValidateSchemaReferencesCall ==
    /\ call = "validate_schema_references" /\ pc = "start"
    /\ pc' = "done"
    /\ loader_result' \in ValidateSchemaReferences(schemas, vocabularies, loader_name)
    /\ UNCHANGED <<call, chunker_vars, extractor_vars, processor_vars,
                   schemas, vocabularies, loader_name>>

NextLoader == GetSchemaCall \/ ListSchemasCall \/ ValidateSchemaReferencesCall

SpecLoader == InitLoader /\ [][NextLoader]_vars

(***************************************************************************)
(* Properties of the chunker                                               *)
(***************************************************************************)
Returned(op) == call = op /\ pc = "done" /\ ~raised

TextChunks == SelectSeq(chunks, LAMBDA c : c.content_type = "text")

HasKey(c, k) == k \in DOMAIN c.metadata

\* the first position >= from at which needle occurs in hay, 0 when there is none
FindFrom(hay, needle, from) ==
    LET hits == {p \in from..(Len(hay) - Len(needle) + 1) :
                    SubSeq(hay, p, p + Len(needle) - 1) = needle}
    IN  IF hits = {} THEN 0 ELSE CHOOSE p \in hits : \A q \in hits : p <= q

\* the pieces occur, one after the other and without overlapping, in the
\* contents of cs read in list order starting at position off of chunk k
RECURSIVE CoveredInOrder(_, _, _, _)
CoveredInOrder(pieces, cs, k, off) ==
    IF pieces = <<>> THEN TRUE
    ELSE IF k > Len(cs) THEN FALSE
    ELSE LET p == FindFrom(cs[k].content, Head(pieces), off)
         IN  IF p > 0
             THEN CoveredInOrder(Tail(pieces), cs, k, p + Len(Head(pieces)))
             ELSE CoveredInOrder(pieces, cs, k + 1, 1)

NonEmpty(ss) == SelectSeq(ss, LAMBDA x : x # <<>>)

\* the paragraphs of the raw text (blank-line separated), each normalised
SourceParagraphs(text) ==
    LET ps == SplitIntoParagraphs(text)
    IN  NonEmpty([i \in 1..Len(ps) |-> CleanText(ps[i])])

SharesOverlap(prev, next) ==
    \E k \in 1..Len(prev) :
        k <= Len(next) /\ LastChars(prev, k) = SubSeq(next, 1, k)

CountChar(s, c) == Cardinality({i \in 1..Len(s) : s[i] = c})

RECURSIVE SumMerged(_)
SumMerged(cs) ==
    IF cs = <<>> THEN 0 ELSE MergedCount(Head(cs).metadata) + SumMerged(Tail(cs))

\* C1 (as claimed): every text chunk returned by text chunking, except at most
\* the last one, has min_chunk_size <= len(content) <= max_chunk_size.
C1_SizeBound ==
    Returned("chunk_content") =>
        \A i \in 1..(Len(TextChunks) - 1) :
            /\ config.min_chunk_size <= Len(TextChunks[i].content)
            /\ Len(TextChunks[i].content) <= config.max_chunk_size

\* C4: after the optimisation pass the chunk_index values of the text chunks
\* are 0, 1, ..., n-1 in list order (kept in tenths: 0, 10, ..., 10(n-1)).
C4_IndexContiguous ==
    (pc = "done" /\ ~raised /\ call \in {"chunk_content", "_optimize_chunk_sizes"}) =>
        \A i \in 1..Len(TextChunks) : TextChunks[i].chunk_index = 10 * (i - 1)

\* C4 witness: a pass that both split a chunk and merged one.
C4_Witness ==
    /\ Returned("_optimize_chunk_sizes")
    /\ \E i \in 1..Len(chunks) : HasKey(chunks[i], "merged_chunks")
    /\ \E i \in 1..Len(chunks) : HasKey(chunks[i], "parent_chunk")

\* C5: the text chunks, read in order, contain every source paragraph (and
\* every sentence of the normalised text) in the original order.
C5_Coverage ==
    (Returned("chunk_content") /\ content.text # NoText) =>
        /\ CoveredInOrder(SourceParagraphs(content.text), TextChunks, 1, 1)
        /\ CoveredInOrder(NonEmpty(SplitSentences(CleanText(content.text))),
                          TextChunks, 1, 1)

\* C5 witness: a text of two paragraphs whose chunk had to be split.
C5_Witness ==
    /\ Returned("chunk_content") /\ content.text # NoText
    /\ Len(SourceParagraphs(content.text)) >= 2
    /\ \E i \in 1..Len(TextChunks) : HasKey(TextChunks[i], "parent_chunk")

\* C6 (as claimed): when the text is longer than max_chunk_size every pair of
\* consecutive text chunks shares a non-empty overlap (the later chunk begins
\* with a tail of the earlier one); a text that fits yields a single chunk.
C6_Overlap ==
    (Returned("chunk_content") /\ content.text # NoText) =>
        IF Len(CleanText(content.text)) > config.max_chunk_size
        THEN \A i \in 1..(Len(TextChunks) - 1) :
                 SharesOverlap(TextChunks[i].content, TextChunks[i + 1].content)
        ELSE Len(TextChunks) <= 1

Scenario9 ==
    /\ Returned("_optimize_chunk_sizes")
    /\ config = DefaultConfig
    /\ input_chunks = ChunkList(<<Rep("a", 900), Rep("a", 50)>>)

OnlyRemovedChars(text) ==
    text = NoText \/ \A i \in 1..Len(text) : IsSpace(text[i]) \/ IsControl(text[i])

\* C10: chunk_content returns an empty list and raises nothing when the text
\* is missing, empty, whitespace-only or made only of characters that the
\* normalisation removes, and there are no tables and no images.
C10_EmptyInput ==
    (call = "chunk_content" /\ pc = "done" /\ OnlyRemovedChars(content.text)
         /\ content.tables = <<>> /\ content.images = <<>>) =>
        (chunks = <<>> /\ ~raised)

\* C10 witness: a text holding a control character and nothing but removed
\* characters went through chunk_content.
C10_Witness ==
    /\ call = "chunk_content" /\ pc = "done"
    /\ content.text # NoText /\ OnlyRemovedChars(content.text)
    /\ \E i \in 1..Len(content.text) : IsControl(content.text[i])
    /\ content.tables = <<>> /\ content.images = <<>>
    /\ chunks = <<>>

\* the position of a content type in the document: text, then tables, then images
TypeRank(content_type) ==
    CASE content_type = "text" -> 0
      [] content_type = "table" -> 1
      [] content_type = "image" -> 2

\* C21 (as claimed): in the list chunk_content returns, every text chunk
\* precedes every table chunk, every table chunk precedes every image chunk,
\* and no two chunks have the same chunk_index, whatever the number of text
\* chunks, tables and images.
C21_TypeOrderAndUniqueIndex ==
    Returned("chunk_content") =>
        /\ \A i \in 1..Len(chunks) : i < Len(chunks) =>
               TypeRank(chunks[i].content_type) <= TypeRank(chunks[i + 1].content_type)
        /\ Cardinality({chunks[i].chunk_index : i \in 1..Len(chunks)}) = Len(chunks)

\* the chunks of one content type in the returned list
ChunksOfType(content_type) == SelectSeq(chunks, LAMBDA c : c.content_type = content_type)

\* the tables of the document whose content is not blank
NonBlankTables == {i \in 1..Len(content.tables) : Strip(content.tables[i]) # <<>>}

\* C22: every chunk chunk_content returns, text chunk, sub-chunk, merged
\* chunk, table or image, has non-empty content; a blank text and a blank
\* table give no chunk.
C22_NoEmptyContent ==
    Returned("chunk_content") =>
        /\ \A i \in 1..Len(chunks) : Strip(chunks[i].content) # <<>>
        /\ Len(ChunksOfType("table")) = Cardinality(NonBlankTables)
        /\ (content.text = NoText \/ Strip(content.text) = <<>>)
               => ChunksOfType("text") = <<>>

\* C22 witness: a document with a blank table and a table with content was
\* chunked; only the second gave a chunk.
C22_Witness ==
    /\ Returned("chunk_content")
    /\ Len(content.tables) = 2
    /\ Cardinality(NonBlankTables) = 1
    /\ Len(ChunksOfType("table")) = 1

\* C23: the chunk_id values of a returned chunk list are pairwise distinct,
\* sub-chunks of a split chunk and chunks that absorbed a neighbour included;
\* stated for chunk_content and for the optimisation pass called on its own.
C23_UniqueChunkId ==
    (pc = "done" /\ ~raised /\ call \in {"chunk_content", "_optimize_chunk_sizes"}) =>
        \A i, j \in 1..Len(chunks) : i # j => chunks[i].chunk_id # chunks[j].chunk_id

\* C23 witness: chunk_content returned the sub-chunks of a split chunk next
\* to other chunks of the document.
C23_Witness ==
    /\ Returned("chunk_content")
    /\ \E i, j \in 1..Len(chunks) :
           /\ HasKey(chunks[i], "parent_chunk")
           /\ HasKey(chunks[j], "parent_chunk")
           /\ chunks[i].metadata.sub_chunk_index # chunks[j].metadata.sub_chunk_index
    /\ \E i \in 1..Len(chunks) : ~HasKey(chunks[i], "parent_chunk")

\* the chunks of the input that _optimize_chunk_sizes hands to
\* _split_large_chunk and whose sentences each fit in max_chunk_size
SplittableInputs ==
    {i \in 1..Len(input_chunks) :
        /\ Len(input_chunks[i].content) > config.max_chunk_size
        /\ \A k \in 1..Len(SplitSentences(input_chunks[i].content)) :
               Len(SplitSentences(input_chunks[i].content)[k]) <= config.max_chunk_size}

\* C27 (as claimed): when a chunk longer than max_chunk_size whose sentences
\* each fit in max_chunk_size is split, every sub-chunk has at most
\* max_chunk_size characters, names its parent in parent_chunk and carries its
\* 0-based position among the sub-chunks in sub_chunk_index.
C27_SubChunksFit ==
    (call = "_optimize_chunk_sizes" /\ pc = "done") =>
        \A i \in SplittableInputs :
            LET subs == SplitLargeChunk(input_chunks[i], config)
            IN  \A k \in 1..Len(subs) :
                    /\ Len(subs[k].content) <= config.max_chunk_size
                    /\ subs[k].metadata.parent_chunk = input_chunks[i].chunk_id
                    /\ subs[k].metadata.sub_chunk_index = k - 1

\* C30 (as claimed): every text chunk returned by text chunking, sub-chunks of
\* a split and chunks that absorbed a neighbour included, has metadata.length
\* equal to the length of its content and metadata.chunk_index equal to its
\* final chunk_index.
C30_MetadataMatchesChunk ==
    (pc = "done" /\ ~raised /\ call \in {"chunk_content", "_optimize_chunk_sizes"}) =>
        \A i \in 1..Len(TextChunks) :
            /\ TextChunks[i].metadata.length = Len(TextChunks[i].content)
            /\ TextChunks[i].metadata.chunk_index = TextChunks[i].chunk_index

\* C26 (as claimed): for a text of k >= 2 non-empty paragraphs separated by
\* blank lines, normalisation followed by paragraph splitting yields exactly
\* those k paragraphs, in order.
C26_ParagraphsSurviveCleaning ==
    (call = "chunk_content" /\ pc = "done" /\ content.text # NoText
        /\ Len(SourceParagraphs(content.text)) >= 2) =>
        SplitIntoParagraphs(CleanText(content.text)) = SourceParagraphs(content.text)

(***************************************************************************)
(* Properties of the schema extractor                                      *)
(***************************************************************************)
Requested(name) == \E i \in 1..Len(schema_names) : schema_names[i] = name

\* the extractor of the field reached the threshold in force
FieldReached(name, f) ==
    /\ f \in DOMAIN Schemas[name].fields
    /\ ExtractField(chunk_text, f, Schemas[name].fields[f]).confidence
           >= ConfidenceThreshold(options)

\* C2: a schema with a non-empty required list, one of whose required fields
\* was not extracted with confidence >= the threshold, has no key at all in
\* the schema_matches that extract_from_chunk returns.
C2_AllOrNothing ==
    Returned("extract_from_chunk") =>
        \A name \in DOMAIN Schemas :
            (Schemas[name].required # {}
                 /\ \E f \in Schemas[name].required : ~FieldReached(name, f))
                => name \notin DOMAIN extracted.schema_matches

\* C2 witness: a requested schema was dropped although one of its fields was
\* extracted, because a required field stayed below the threshold.
C2_Witness ==
    /\ Returned("extract_from_chunk")
    /\ \E name \in DOMAIN Schemas :
           /\ Requested(name)
           /\ \E f \in Schemas[name].required : ~FieldReached(name, f)
           /\ \E f \in DOMAIN Schemas[name].fields : FieldReached(name, f)
           /\ name \notin DOMAIN extracted.schema_matches

\* C8 (as claimed): schema 'invoice' at the default threshold 0.7, on a text
\* that holds an invoice number but no total keyword followed by a number,
\* gives no 'invoice' key, whatever else the text holds.
C8_InvoiceWithoutTotal ==
    (Returned("extract_from_chunk")
         /\ Requested("invoice")
         /\ ConfidenceThreshold(options) = DefaultThreshold
         /\ ExtractReferenceField(chunk_text, "invoice_no").confidence = 80
         /\ TotalMatches(chunk_text) = {})
        => "invoice" \notin DOMAIN extracted.schema_matches

\* the field has one of the types _extract_field dispatches on
SupportedType(field_def) == field_def.type \in {"string", "list", "number", "object"}

\* C11: in the result of extract_from_chunk a field is a key of
\* schema_matches[s] only if its extractor returned a confidence >= the
\* threshold in force (0.7 when the option is absent), and when s is present
\* every field of a supported type that reached the threshold is a key.
C11_ThresholdRetention ==
    Returned("extract_from_chunk") =>
        \A name \in DOMAIN extracted.schema_matches :
            /\ DOMAIN extracted.schema_matches[name] \subseteq DOMAIN Schemas[name].fields
            /\ \A f \in DOMAIN Schemas[name].fields :
                   f \in DOMAIN extracted.schema_matches[name]
                       <=> (SupportedType(Schemas[name].fields[f]) /\ FieldReached(name, f))

\* C11 witness: a schema is present with one field kept and another field,
\* whose extractor stayed below the threshold, left out; the threshold is
\* the default one of an options map without the key.
C11_Witness ==
    /\ Returned("extract_from_chunk")
    /\ "confidence_threshold" \notin DOMAIN options
    /\ \E name \in DOMAIN extracted.schema_matches :
           \E f, g \in DOMAIN Schemas[name].fields :
               /\ f \in DOMAIN extracted.schema_matches[name]
               /\ g \notin DOMAIN extracted.schema_matches[name]
               /\ SupportedType(Schemas[name].fields[g])

\* the requested names the loader knows, in the order requested
KnownNames(names) == SelectSeq(names, SchemaLoaded)

\* C12: a requested name that is not loaded is skipped without raising: it
\* never is a key of schema_matches, the call raises only if it raises for
\* the list without the unknown names, and its schema_matches and categories
\* are those of the call on the list without the unknown names.
C12_UnknownSkipped ==
    (call = "extract_from_chunk" /\ pc = "done") =>
        /\ \A i \in 1..Len(schema_names) :
               ~SchemaLoaded(schema_names[i])
                   => schema_names[i] \notin DOMAIN extracted.schema_matches
        /\ raised <=> ExtractRaises(KnownNames(schema_names))
        /\ ~raised =>
               LET without == ExtractFromChunk(chunk_text, KnownNames(schema_names), options)
               IN  /\ extracted.schema_matches = without.schema_matches
                   /\ extracted.categories = without.categories

\* C12 witness: an unknown name was requested before a schema that matched.
C12_Witness ==
    /\ Returned("extract_from_chunk")
    /\ \E i, j \in 1..Len(schema_names) :
           /\ i < j
           /\ ~SchemaLoaded(schema_names[i])
           /\ schema_names[j] \in DOMAIN extracted.schema_matches

\* C13 (as claimed): when applying one requested schema fails, the other
\* requested schemas are still applied: every requested schema that does not
\* fail and matches the text on its own has its key in the schema_matches of
\* the result of _run_schema_extraction, and nothing is raised.
C13_FailureIsolatedPerSchema ==
    (call = "_run_schema_extraction" /\ pc = "done") =>
        /\ ~raised
        /\ \A i \in 1..Len(schema_names) :
               LET name == schema_names[i]
               IN  (/\ SchemaLoaded(name)
                    /\ ~ApplySchemaRaises(Schemas[name])
                    /\ name \in MatchedNames(chunk_text, <<name>>, RunOptions))
                       => name \in DOMAIN extracted.schema_matches

\* the precondition invariants of ChunkConfig
ConfigInvariant(cfg) ==
    /\ cfg.min_chunk_size < cfg.max_chunk_size
    /\ cfg.overlap_size < cfg.max_chunk_size

\* C15 (as claimed): a ChunkConfig with min_chunk_size >= max_chunk_size or
\* overlap_size >= max_chunk_size is rejected with an exception when the
\* chunker is constructed or invoked with it, and no chunk list is produced.
C15_InvalidConfigRejected ==
    (call = "chunk_content" /\ pc = "done" /\ ~ConfigInvariant(config)) =>
        raised /\ chunks = <<>>

\* C24 (as claimed): two invocations of extract_from_chunk with the same
\* text, schema names, options and registry return the same extracted_data,
\* the elements that survive the cap on key phrases and their order included.
C24_ExtractionDeterministic ==
    (call = "extract_from_chunk" /\ Len(extractions) = 2) =>
        extractions[1] = extractions[2]

(***************************************************************************)
(* Properties of the storage and aggregation steps                         *)
(***************************************************************************)
InBatch(chunk) == \E r \in 1..Len(chunk_records) : chunk_records[r].chunk_id = chunk.chunk_id

\* C3: every record of the batch handed to storage has an embedding of
\* exactly 1536 elements; a chunk with no 'text' vector, an empty one or one
\* of another length is left out, and every other chunk is in the batch.
C3_EmbeddingIntegrity ==
    (call = "_store_processed_chunks" /\ pc = "done") =>
        /\ \A r \in 1..Len(chunk_records) :
               Len(chunk_records[r].embedding) = EmbeddingDimension
        /\ \A i \in 1..Len(processed_chunks) :
               LET chunk == processed_chunks[i]
               IN  IF "text" \in DOMAIN chunk.embeddings
                          /\ Len(chunk.embeddings.text) = EmbeddingDimension
                   THEN supabase_available => InBatch(chunk)
                   ELSE ~InBatch(chunk)

\* C3 witness: a batch was handed over that leaves out a 512-element vector.
C3_Witness ==
    /\ call = "_store_processed_chunks" /\ pc = "done"
    /\ chunk_records # <<>>
    /\ \E i \in 1..Len(processed_chunks) :
           /\ "text" \in DOMAIN processed_chunks[i].embeddings
           /\ Len(processed_chunks[i].embeddings.text) = 512
           /\ ~InBatch(processed_chunks[i])

\* C7 (as claimed): two calls of _aggregate_document_metadata on the same
\* chunk list return identical metadata, the order of every list included.
C7_Idempotent ==
    (call = "_aggregate_document_metadata" /\ Len(aggregated) = 2) =>
        aggregated[1] = aggregated[2]

\* C14 (as claimed): a chunk whose embedding is unavailable or failed only
\* lacks the 'text' key; process_document never raises because of it, the
\* chunk is left out of the stored batch and the document is completed,
\* however many chunks lack an embedding, all of them included.
C14_EmbeddingFailureNeverRaises ==
    (/\ call = "process_document" /\ pc = "done"
     /\ doc_chunks # <<>>
     /\ (supabase_available => insert_ok /\ record_ok)) =>
        /\ ~raised
        /\ processing_status = "completed"
        /\ \A i \in 1..Len(processed_chunks) :
               "text" \notin DOMAIN processed_chunks[i].embeddings
                   => ~InBatch(processed_chunks[i])

\* the chunks of the aggregated list whose extracted_metadata is of one kind
ChunksOfKind(kind) ==
    {i \in 1..Len(processed_chunks) : processed_chunks[i].extracted_metadata.kind = kind}

\* the chunks whose schema extraction raised inside extract_metadata
SchemaExtractionErrored ==
    {i \in ChunksOfKind("enhanced") : processed_chunks[i].extracted_metadata.langextract_error}

\* C16 (as claimed): successful_extractions is the number of chunks whose
\* extraction did not error, and every chunk whose schema extraction raised
\* is counted in failed_extractions; a chunk with no metadata at all (blank
\* text) may be counted on either side.
C16_ErroredExtractionsCountedFailed ==
    (call = "_aggregate_document_metadata" /\ aggregated # <<>>) =>
        LET summary == aggregated[1].extraction_summary
            clean == Cardinality(ChunksOfKind("enhanced") \ SchemaExtractionErrored)
            errored == Cardinality(ChunksOfKind("error") \cup SchemaExtractionErrored)
            blank == Cardinality(ChunksOfKind("empty"))
        IN  /\ summary.successful_extractions >= clean
            /\ summary.successful_extractions <= clean + blank
            /\ summary.failed_extractions >= errored
            /\ summary.successful_extractions + summary.failed_extractions
                   = Len(processed_chunks)

\* the entities of the aggregated chunks, in chunk order
CollectedEntities == AllEntities(processed_chunks)

\* C17: the aggregated metadata has at most 20 key_entities, no two of them
\* with the same text once case and surrounding whitespace are ignored, each
\* of them the first entity of its text in chunk order, and at most 10
\* document_sections and 10 action_items.
C17_CapsAndDeduplication ==
    (call = "_aggregate_document_metadata" /\ aggregated # <<>>) =>
        LET key_entities == aggregated[1].key_entities
            insights == aggregated[1].content_insights
        IN  /\ Len(key_entities) <= KeyEntitiesCap
            /\ \A i, j \in 1..Len(key_entities) :
                   i # j => EntityKey(key_entities[i]) # EntityKey(key_entities[j])
            /\ \A i \in 1..Len(key_entities) :
                   \E j \in 1..Len(CollectedEntities) :
                       /\ CollectedEntities[j] = key_entities[i]
                       /\ \A k \in 1..(j - 1) :
                              EntityKey(CollectedEntities[k]) # EntityKey(key_entities[i])
            /\ Len(insights.document_sections) <= SectionsCap
            /\ Len(insights.action_items) <= ActionItemsCap

\* C17 witness: more than 20 distinct entities, one of them repeated in
\* another case, and more than 10 sections and action items were collected,
\* and the metadata holds 20, 10 and 10 of them.
C17_Witness ==
    /\ call = "_aggregate_document_metadata" /\ aggregated # <<>>
    /\ Len(aggregated[1].key_entities) = KeyEntitiesCap
    /\ Cardinality({EntityKey(CollectedEntities[j]) : j \in 1..Len(CollectedEntities)})
           > KeyEntitiesCap
    /\ \E j, k \in 1..Len(CollectedEntities) :
           /\ CollectedEntities[j] # CollectedEntities[k]
           /\ EntityKey(CollectedEntities[j]) = EntityKey(CollectedEntities[k])
    /\ Len(AllSections(processed_chunks)) > SectionsCap
    /\ Len(aggregated[1].content_insights.document_sections) = SectionsCap
    /\ Len(AllActionItems(processed_chunks)) > ActionItemsCap
    /\ Len(aggregated[1].content_insights.action_items) = ActionItemsCap

\* how often a document type occurs in the likely_types of the aggregated chunks
Occurrences(t) ==
    Cardinality({p \in (1..Len(processed_chunks)) \X (1..2) :
        /\ p[2] <= Len(processed_chunks[p[1]].extracted_metadata.likely_types)
        /\ processed_chunks[p[1]].extracted_metadata.likely_types[p[2]] = t})

\* the document types some aggregated chunk reported
ReportedTypes == {t \in {"invoice", "contract"} : Occurrences(t) > 0}

\* C18: primary_type is present exactly when some chunk reported a likely
\* type; it is then a type whose number of occurrences in the chunks'
\* likely_types is maximal, and confidence_scores holds the count of every
\* reported type.
C18_PrimaryTypePlurality ==
    (call = "_aggregate_document_metadata" /\ aggregated # <<>>) =>
        LET indicators == aggregated[1].document_type_indicators
        IN  /\ ("primary_type" \in DOMAIN indicators) <=> (ReportedTypes # {})
            /\ "primary_type" \in DOMAIN indicators =>
                   /\ indicators.primary_type \in ReportedTypes
                   /\ \A t \in ReportedTypes :
                          Occurrences(t) <= Occurrences(indicators.primary_type)
                   /\ DOMAIN indicators.confidence_scores = ReportedTypes
                   /\ \A t \in ReportedTypes :
                          indicators.confidence_scores[t] = Occurrences(t)

\* C18 witness: the first chunk reported one type, a later type occurs more
\* often and is the primary type.
C18_Witness ==
    /\ call = "_aggregate_document_metadata" /\ aggregated # <<>>
    /\ "primary_type" \in DOMAIN aggregated[1].document_type_indicators
    /\ processed_chunks[1].extracted_metadata.likely_types # <<>>
    /\ processed_chunks[1].extracted_metadata.likely_types[1]
           # aggregated[1].document_type_indicators.primary_type
    /\ \E t \in ReportedTypes :
           Occurrences(t) < Occurrences(aggregated[1].document_type_indicators.primary_type)

(***************************************************************************)
(* Properties of the schema loader                                         *)
(***************************************************************************)
\* an enum_ref of the definition names a loaded vocabulary that holds the enum
ResolvesIn(vocabs, enum_ref) ==
    /\ Len(enum_ref) = 2
    /\ enum_ref[1] \in DOMAIN vocabs
    /\ enum_ref[2] \in DOMAIN vocabs[enum_ref[1]]

\* every enum_ref of the loaded schema resolves
AllReferencesResolve ==
    /\ loader_name \in DOMAIN schemas
    /\ \A f \in DOMAIN schemas[loader_name].fields :
           "enum_ref" \in DOMAIN schemas[loader_name].fields[f]
               => ResolvesIn(vocabularies, schemas[loader_name].fields[f].enum_ref)

\* C19 (as claimed): validate_schema_references always returns a boolean,
\* never raises; it returns True when the schema is loaded and every enum_ref
\* of it resolves, and False when the schema is not loaded or some enum_ref
\* names a missing vocabulary or a missing enum.
C19_ValidateReturnsBoolean ==
    (call = "validate_schema_references" /\ pc = "done") =>
        /\ loader_result.kind = "bool"
        /\ loader_result.bool = AllReferencesResolve

\* C20: get_schema returns the loaded definition for a name the loader holds
\* and None for any other name; list_schemas returns, without repetition,
\* exactly the names for which get_schema is not None.
C20_RegistryLookup ==
    /\ (call = "get_schema" /\ pc = "done") =>
           IF loader_name \in DOMAIN schemas
           THEN /\ loader_result.kind = "schema"
                /\ loader_result.schema = schemas[loader_name]
           ELSE loader_result.kind = "none"
    /\ (call = "list_schemas" /\ pc = "done") =>
           /\ loader_result.kind = "list"
           /\ SeqToSet(loader_result.names)
                  = {n \in LoaderNames : GetSchema(schemas, n).kind # "none"}
           /\ \A i, j \in 1..Len(loader_result.names) :
                  i # j => loader_result.names[i] # loader_result.names[j]

\* C20 witness: with some but not all schema files loaded, a lookup of a
\* missing name returned None, or the listing returned the loaded names.
C20_Witness ==
    /\ pc = "done"
    /\ DOMAIN schemas # {} /\ DOMAIN schemas # SchemaFileNames
    /\ \/ call = "get_schema" /\ loader_name \notin DOMAIN schemas
          /\ loader_result.kind = "none"
       \/ call = "list_schemas" /\ Len(loader_result.names) >= 2

(***************************************************************************)
(* Properties of the document pipeline and its storage                     *)
(***************************************************************************)
\* the rows the chunk table holds for a document
RowsOf(document_id) == {r \in processed_embeddings : r.document_id = document_id}

\* C25 (as claimed): when document D has been processed again, the stored
\* chunks of D are exactly the newly computed ones, the metadata of D is the
\* aggregate of the new chunks, and no new chunk belongs to another document.
C25_ReprocessReplacesWholesale ==
    (call = "reprocess_document" /\ pc = "done" /\ ~raised) =>
        /\ {r.chunk_id : r \in RowsOf(ReprocessedId)}
               = {chunk_records[i].chunk_id : i \in 1..Len(chunk_records)}
        /\ \A r \in RowsOf(ReprocessedId) : r.id[1] = "uuid-new"
        /\ documents[ReprocessedId].metadata = aggregated[1]
        /\ \A r \in processed_embeddings :
               r.id[1] = "uuid-new" => r.document_id = ReprocessedId

\* process_document has finished, under either of its callers
RunFinished == call \in {"process_document", "reprocess_document"} /\ pc = "done"

\* C28 (as claimed): when process_document returns 'completed', the record of
\* the document has processing_status 'completed' and holds the aggregated
\* metadata; when it raises, the record, if one was created, has 'failed';
\* the record is never left in 'processing', whatever storage call fails.
C28_StatusFollowsOutcome ==
    (call = "process_document" /\ pc = "done" /\ NewDocumentId \in DOMAIN documents) =>
        /\ ~raised => /\ documents[NewDocumentId].processing_status = "completed"
                      /\ documents[NewDocumentId].metadata = aggregated[1]
        /\ raised => documents[NewDocumentId].processing_status = "failed"
        /\ documents[NewDocumentId].processing_status # "processing"

\* C29 (as claimed): after a successful run with storage available, total_chunks
\* of the aggregated metadata and chunks_processed of the result equal the
\* number of chunk rows inserted for the document.
C29_TotalChunksMatchesStored ==
    (call = "process_document" /\ pc = "done" /\ ~raised /\ supabase_available) =>
        /\ aggregated[1].total_chunks = Cardinality(RowsOf(NewDocumentId))
        /\ Len(processed_chunks) = Cardinality(RowsOf(NewDocumentId))

====
